---- MODULE Spec2Model ----
(***************************************************************************)
(* Model of src/inventory_system.py: the process-wide inventory mapping    *)
(* STOCK_DATA, the operations add_item, remove_item, get_qty, load_data,   *)
(* save_data, print_data and check_low_items, and the JSON file they read  *)
(* and write.                                                              *)
(*                                                                         *)
(* A Python value is a record [ty, v]: ty is the Python type's name and v  *)
(* the integer of an int (0 for the other types).  The numbers of the      *)
(* model are ints; "ten" stands for the strings and 1j for the complex     *)
(* numbers; all complex values are collapsed to one, since the program     *)
(* never tells two of them apart.  A dict is the sequence of its (key,     *)
(* value) entries in insertion order.  A file's text is a sequence of      *)
(* tokens.                                                                 *)
(***************************************************************************)
EXTENDS Integers, Sequences, FiniteSets, TLC

VARIABLES
    STOCK_DATA,   \* the global inventory dict (line 24)
    file,         \* the state of the file "inventory.json"
    call,         \* the last call: its name and its arguments
    pre,          \* STOCK_DATA as it was when the last call began
    raised,       \* the exception the last call propagated, or "none"
    ret,          \* what the last call returned
    diag,         \* the log records the last call emitted
    audit,        \* add_item's logs list as the last call left it
    total         \* the sum of the quantities added per item while only
                  \* adds of a positive quantity have been made

vars == <<STOCK_DATA, file, call, pre, raised, ret, diag, audit, total>>

-----------------------------------------------------------------------------
(* Bounds and input sets *)

MaxQty == 2

Names == {"apple", "banana"}

PyInt(n) == [ty |-> "int", v |-> n]
Ten == [ty |-> "str", v |-> 0]
OneJ == [ty |-> "complex", v |-> 0]
None == [ty |-> "NoneType", v |-> 0]

\* an item argument: a string, the int 123, or a list (unhashable)
Str(s) == [ty |-> "str", s |-> s]
OneTwoThree == [ty |-> "int", s |-> "123"]
List == [ty |-> "list", s |-> "[]"]
AddItems == {Str(n) : n \in Names} \cup {OneTwoThree}
Items == {Str(n) : n \in Names} \cup {List}

AddQtys == {PyInt(-1), PyInt(1), Ten}
RemoveQtys == {PyInt(1), PyInt(2), Ten, OneJ}
Paths == {"inventory.json", "/"}

\* the quantities an entry may reach by add in this model
InRange(x) == x.ty = "int" => (x.v >= -1 /\ x.v <= MaxQty)

-----------------------------------------------------------------------------
(* Python's operations on values *)

\* isinstance(item, str), line 42
IsStr(x) == x.ty = "str"

\* isinstance(qty, (int, float)), line 46
IsNumberAlways(x) == TRUE
IsNumber(x) == x.ty \in {"int", "float"}

\* hash(item), as the dict lookups of lines 66 and 89 need it
Hashable(x) == x.ty # "list"

Ok(x) == [ok |-> TRUE, val |-> x]
TypeError == [ok |-> FALSE, val |-> None]

Arith(a, b, r) ==
    IF ~(a.ty \in {"int", "complex"} /\ b.ty \in {"int", "complex"})
    THEN TypeError
    ELSE IF a.ty = "complex" \/ b.ty = "complex" THEN Ok(OneJ)
    ELSE Ok(PyInt(r))

\* a + b, line 50
PyAddOverwrite(a, b) == Arith(a, b, b.v)
PyAdd(a, b) == Arith(a, b, a.v + b.v)

\* a - b, line 71
PySubReversed(a, b) == Arith(a, b, b.v - a.v)
PySub(a, b) == Arith(a, b, a.v - b.v)

\* a <= b (line 72) and a < b (line 157): val is a BOOLEAN
Compare(a, b, r) ==
    IF a.ty = "str" /\ b.ty = "str" THEN [ok |-> TRUE, val |-> FALSE]
    ELSE IF ~(a.ty = "int" /\ b.ty = "int")
    THEN [ok |-> FALSE, val |-> FALSE]
    ELSE [ok |-> TRUE, val |-> r]

PyLeStrict(a, b) == Compare(a, b, a.v < b.v)
PyLe(a, b) == Compare(a, b, a.v <= b.v)
PyLtOrEqual(a, b) == Compare(a, b, a.v <= b.v)
PyLt(a, b) == Compare(a, b, a.v < b.v)

-----------------------------------------------------------------------------
(* dict: a sequence of entries [k, v] with distinct keys, in insertion order *)

Keys(d) == {d[i].k : i \in 1..Len(d)}

Index(d, key) == CHOOSE i \in 1..Len(d) : d[i].k = key

\* d.get(key, default)
Get(d, key, default) == IF key \in Keys(d) THEN d[Index(d, key)].v ELSE default

\* d[key] = val: in place for a key of d, appended for a new key
Set(d, key, val) ==
    IF key \in Keys(d)
    THEN [d EXCEPT ![Index(d, key)].v = val]
    ELSE Append(d, [k |-> key, v |-> val])

\* del d[key]
Del(d, key) ==
    LET i == Index(d, key)
    IN  SubSeq(d, 1, i - 1) \o SubSeq(d, i + 1, Len(d))

\* d.update(e), e a sequence of entries
RECURSIVE Update(_, _)
Update(d, e) ==
    IF e = <<>> THEN d ELSE Update(Set(d, Head(e).k, Head(e).v), Tail(e))

-----------------------------------------------------------------------------
(* JSON text: a sequence of tokens.  A token is a punctuation mark, a run    *)
(* of white space, a digit, a minus sign, null, a quoted string, or a        *)
(* byte that is not UTF-8.                                                   *)

Digit == <<"0", "1", "2", "3", "4", "5", "6", "7", "8", "9">>
Digits == {Digit[i] : i \in 1..Len(Digit)}
DigitVal(c) == (CHOOSE i \in 1..Len(Digit) : Digit[i] = c) - 1

Strings == Names \cup {"ten"}
Quote(s) == "\"" \o s \o "\""
Quoted == {Quote(s) : s \in Strings}
Unquote(tok) == CHOOSE s \in Strings : Quote(s) = tok

NL == "\n"
Indent == "    "
White == {NL, Indent, " "}
BadByte == "\\xff"

\* the decimal digits of n >= 0
RECURSIVE NatToText(_)
NatToText(n) ==
    IF n < 10 THEN <<Digit[n + 1]>> ELSE NatToText(n \div 10) \o <<Digit[(n % 10) + 1]>>

\* json's encoding of one value; a complex is not serializable
EncodeValueNoSign(x) ==
    CASE x.ty = "int" -> [ok |-> TRUE, text |-> NatToText(IF x.v < 0 THEN -x.v ELSE x.v)]
      [] x.ty = "str" -> [ok |-> TRUE, text |-> <<Quote("ten")>>]
      [] x.ty = "NoneType" -> [ok |-> TRUE, text |-> <<"null">>]
      [] OTHER -> [ok |-> FALSE, text |-> <<>>]
EncodeValue(x) ==
    CASE x.ty = "int" -> [ok |-> TRUE, text |-> IF x.v < 0 THEN <<"-">> \o NatToText(-x.v) ELSE NatToText(x.v)]
      [] x.ty = "str" -> [ok |-> TRUE, text |-> <<Quote("ten")>>]
      [] x.ty = "NoneType" -> [ok |-> TRUE, text |-> <<"null">>]
      [] OTHER -> [ok |-> FALSE, text |-> <<>>]

\* json.dump(d, file, indent=4), line 129: the text written, entry by entry;
\* on a value that is not serializable the text written so far stays in the
\* file and TypeError is raised
RECURSIVE DumpEntries(_, _, _)
DumpEntries(d, i, out) ==
    IF i > Len(d) THEN [ok |-> TRUE, text |-> out \o <<NL, "}">>]
    ELSE LET head == out \o (IF i = 1 THEN <<NL, Indent>> ELSE <<",", NL, Indent>>)
                         \o <<Quote(d[i].k), ":", " ">>
             e == EncodeValue(d[i].v)
         IN  IF e.ok THEN DumpEntries(d, i + 1, head \o e.text)
             ELSE [ok |-> FALSE, text |-> head]

JsonDump(d) ==
    IF d = <<>> THEN [ok |-> TRUE, text |-> <<"{", "}">>] ELSE DumpEntries(d, 1, <<"{">>)

\* the first position at or after i that holds no white space
RECURSIVE SkipWhite(_, _)
SkipWhite(t, i) == IF i <= Len(t) /\ t[i] \in White THEN SkipWhite(t, i + 1) ELSE i

At(t, i) == IF i <= Len(t) THEN t[i] ELSE "EOF"

Fail == [ok |-> FALSE, val |-> None, next |-> 0]

RECURSIVE ParseDigits(_, _, _)
ParseDigits(t, i, n) ==
    IF At(t, i) \in Digits THEN ParseDigits(t, i + 1, 10 * n + DigitVal(t[i]))
    ELSE [ok |-> TRUE, val |-> PyInt(n), next |-> i]

\* a scalar at position i
ParseScalar(t, i) ==
    LET c == At(t, i)
    IN  CASE c \in Digits -> ParseDigits(t, i, 0)
          [] c = "-" /\ At(t, i + 1) \in Digits ->
                LET r == ParseDigits(t, i + 1, 0)
                IN  [r EXCEPT !.val = PyInt(-r.val.v)]
          [] c = "null" -> [ok |-> TRUE, val |-> None, next |-> i + 1]
          [] c \in Quoted -> [ok |-> TRUE, val |-> Ten, next |-> i + 1]
          [] OTHER -> Fail

\* the members of an object, from position i (after "{" or ","), appended to acc
RECURSIVE ParseMembers(_, _, _)
ParseMembers(t, i, acc) ==
    LET k == SkipWhite(t, i)
        c == SkipWhite(t, k + 1)
        v == ParseScalar(t, SkipWhite(t, c + 1))
        e == SkipWhite(t, v.next)
    IN  IF ~(At(t, k) \in Quoted /\ At(t, c) = ":" /\ v.ok) THEN [ok |-> FALSE, pairs |-> <<>>, next |-> 0]
        ELSE LET got == Append(acc, [k |-> Unquote(t[k]), v |-> v.val])
             IN  CASE At(t, e) = "," -> ParseMembers(t, e + 1, got)
                   [] At(t, e) = "}" -> [ok |-> TRUE, pairs |-> got, next |-> e + 1]
                   [] OTHER -> [ok |-> FALSE, pairs |-> <<>>, next |-> 0]

\* the elements of an array, from position i (after "[" or ",")
RECURSIVE ParseElements(_, _)
ParseElements(t, i) ==
    LET v == ParseScalar(t, SkipWhite(t, i))
        e == SkipWhite(t, v.next)
    IN  IF ~v.ok THEN [ok |-> FALSE, next |-> 0]
        ELSE CASE At(t, e) = "," -> ParseElements(t, e + 1)
               [] At(t, e) = "]" -> [ok |-> TRUE, next |-> e + 1]
               [] OTHER -> [ok |-> FALSE, next |-> 0]

JSONDecodeError == [ok |-> FALSE, kind |-> "none", dict |-> <<>>]

\* json.loads: [ok, kind, dict]; dict is the parsed object when kind = "dict".
\* A repeated key keeps its first place and takes its last value.
JsonLoads(t) ==
    LET s == SkipWhite(t, 1)
        c == At(t, s)
        r == CASE c = "{" /\ At(t, SkipWhite(t, s + 1)) = "}" ->
                    [ok |-> TRUE, kind |-> "dict", dict |-> <<>>, next |-> SkipWhite(t, s + 1) + 1]
               [] c = "{" /\ At(t, SkipWhite(t, s + 1)) # "}" ->
                    LET m == ParseMembers(t, s + 1, <<>>)
                    IN  [ok |-> m.ok, kind |-> "dict", dict |-> Update(<<>>, m.pairs), next |-> m.next]
               [] c = "[" /\ At(t, SkipWhite(t, s + 1)) = "]" ->
                    [ok |-> TRUE, kind |-> "list", dict |-> <<>>, next |-> SkipWhite(t, s + 1) + 1]
               [] c = "[" /\ At(t, SkipWhite(t, s + 1)) # "]" ->
                    LET a == ParseElements(t, s + 1)
                    IN  [ok |-> a.ok, kind |-> "list", dict |-> <<>>, next |-> a.next]
               [] OTHER ->
                    LET v == ParseScalar(t, s)
                    IN  [ok |-> v.ok, kind |-> "scalar", dict |-> <<>>, next |-> v.next]
    IN  IF r.ok /\ SkipWhite(t, r.next) = Len(t) + 1
        THEN [ok |-> TRUE, kind |-> r.kind, dict |-> r.dict]
        ELSE JSONDecodeError

\* the text decodes as UTF-8
Utf8(t) == \A i \in 1..Len(t) : t[i] # BadByte

-----------------------------------------------------------------------------
(* The calls *)

DefaultThreshold == 5

Thresholds == {PyInt(DefaultThreshold), PyInt(2), Ten}

NoItem == [ty |-> "NoneType", s |-> ""]
NoRet == [qty |-> None, low |-> <<>>]

Call(name, item, qty, path) ==
    [name |-> name, item |-> item, qty |-> qty, path |-> path, saved |-> FALSE]

Log(level, msg) == [level |-> level, msg |-> msg, k |-> "", v |-> None]

Zero == [n \in Names |-> 0]
Off == [on |-> FALSE, sum |-> Zero]

\* item in STOCK_DATA (line 66): a key of the dict is a str
Has(d, item) == item.ty = "str" /\ item.s \in Keys(d)


\* add_item(item, qty, logs), lines 27-52.  logs is the list of lines 39-40:
\* the caller's, or a new one when the caller gives none; audit is what it
\* holds when the call returns
add_item(item, qty) ==
    LET sum == PyAdd(Get(STOCK_DATA, item.s, PyInt(0)), qty)
    IN  /\ call' = Call("add_item", item, qty, "")
        /\ pre' = STOCK_DATA
        /\ ret' = NoRet
        /\ file' = file
        /\ IF ~IsStr(item)
           THEN /\ diag' = <<Log("WARNING", "Invalid item type: %s")>>
                /\ raised' = "none"
                /\ audit' = <<>>
                /\ UNCHANGED <<STOCK_DATA, total>>
           ELSE IF ~IsNumber(qty)
           THEN /\ diag' = <<Log("WARNING", "Invalid quantity type: %s")>>
                /\ raised' = "none"
                /\ audit' = <<>>
                /\ UNCHANGED <<STOCK_DATA, total>>
           ELSE IF ~sum.ok
           THEN /\ diag' = <<>>
                /\ raised' = "TypeError"
                /\ audit' = <<>>
                /\ UNCHANGED <<STOCK_DATA, total>>
           ELSE /\ InRange(sum.val)
                /\ STOCK_DATA' = Set(STOCK_DATA, item.s, sum.val)
                /\ audit' = <<[qty |-> qty, item |-> item.s]>>
                /\ diag' = <<[level |-> "INFO", msg |-> "Added %d of %s", k |-> item.s, v |-> qty]>>
                /\ raised' = "none"
                /\ total' = IF total.on /\ qty.v > 0
                            THEN [total EXCEPT !.sum[item.s] = @ + qty.v]
                            ELSE Off

\* remove_item(item, qty), lines 55-76
remove_item(item, qty) ==
    /\ call' = Call("remove_item", item, qty, "")
    /\ pre' = STOCK_DATA
    /\ ret' = NoRet
    /\ audit' = <<>>
    /\ file' = file
    /\ total' = Off
    /\ IF ~Hashable(item)
       THEN /\ raised' = "TypeError"
            /\ diag' = <<>>
            /\ UNCHANGED STOCK_DATA
       ELSE IF ~Has(STOCK_DATA, item)
       THEN /\ raised' = "none"
            /\ diag' = <<Log("WARNING", "Item '%s' not found in inventory.")>>
            /\ UNCHANGED STOCK_DATA
       ELSE LET diff == PySub(Get(STOCK_DATA, item.s, None), qty)
                le == PyLe(diff.val, PyInt(0))
            IN  /\ raised' = "none"
                /\ IF ~diff.ok
                   THEN /\ diag' = <<Log("ERROR", "Error removing item: %s")>>
                        /\ UNCHANGED STOCK_DATA
                   ELSE IF ~le.ok
                   THEN /\ diag' = <<Log("ERROR", "Error removing item: %s")>>
                        /\ STOCK_DATA' = Set(STOCK_DATA, item.s, diff.val)
                   ELSE IF le.val
                   THEN /\ diag' = <<Log("INFO", "Removed %s from inventory.")>>
                        /\ STOCK_DATA' = Del(Set(STOCK_DATA, item.s, diff.val), item.s)
                   ELSE /\ diag' = <<>>
                        /\ STOCK_DATA' = Set(STOCK_DATA, item.s, diff.val)

\* STOCK_DATA.get(item, 0), line 89
QtyOf(d, item) == IF Has(d, item) THEN Get(d, item.s, PyInt(0)) ELSE PyInt(0)

\* get_qty(item), lines 79-89
get_qty(item) ==
    /\ call' = Call("get_qty", item, None, "")
    /\ pre' = STOCK_DATA
    /\ audit' = <<>>
    /\ diag' = <<>>
    /\ UNCHANGED <<STOCK_DATA, file, total>>
    /\ IF ~Hashable(item)
       THEN raised' = "TypeError" /\ ret' = NoRet
       ELSE /\ raised' = "none"
            /\ ret' = [NoRet EXCEPT !.qty = QtyOf(STOCK_DATA, item)]

\* [i for i, q in d.items() if q < threshold], line 157: the comprehension
\* stops with TypeError at the first quantity that does not compare
RECURSIVE LowItems(_, _, _, _)
LowItems(d, threshold, i, out) ==
    IF i > Len(d) THEN [ok |-> TRUE, low |-> out]
    ELSE LET lt == PyLt(d[i].v, threshold)
         IN  IF ~lt.ok THEN [ok |-> FALSE, low |-> <<>>]
             ELSE LowItems(d, threshold, i + 1, IF lt.val THEN Append(out, d[i].k) ELSE out)

\* check_low_items(threshold), lines 147-157
check_low_items(threshold) ==
    LET r == LowItems(STOCK_DATA, threshold, 1, <<>>)
    IN  /\ call' = Call("check_low_items", NoItem, threshold, "")
        /\ pre' = STOCK_DATA
        /\ audit' = <<>>
        /\ diag' = <<>>
        /\ UNCHANGED <<STOCK_DATA, file, total>>
        /\ raised' = IF r.ok THEN "none" ELSE "TypeError"
        /\ ret' = [NoRet EXCEPT !.low = r.low]

\* the call before this one was save_data(file_path), and it wrote the file
Saved(file_path) ==
    /\ call.name = "save_data"
    /\ call.path = file_path
    /\ raised = "none"
    /\ diag = <<Log("INFO", "Inventory data saved to %s")>>

\* isinstance(data, dict), line 105
IsDictAlways(data) == TRUE
IsDict(data) == data.kind = "dict"

\* STOCK_DATA.clear(); STOCK_DATA.update(data), lines 106-107
ReplaceNoClear(d, data) == Update(d, data)
Replace(d, data) == Update(<<>>, data)

\* load_data(file_path), lines 92-114
load_data(file_path) ==
    LET data == JsonLoads(file.text)
    IN  /\ call' = [Call("load_data", NoItem, None, file_path) EXCEPT
                      !.saved = Saved(file_path)]
        /\ pre' = STOCK_DATA
        /\ ret' = NoRet
        /\ audit' = <<>>
        /\ file' = file
        /\ total' = Off
        /\ IF file_path = "/"
           THEN /\ raised' = "IsADirectoryError"
                /\ diag' = <<>>
                /\ UNCHANGED STOCK_DATA
           ELSE IF file.kind = "absent"
           THEN /\ raised' = "none"
                /\ diag' = <<Log("WARNING", "File %s not found. Starting with empty inventory.")>>
                /\ UNCHANGED STOCK_DATA
           ELSE IF ~Utf8(file.text)
           THEN /\ raised' = "UnicodeDecodeError"
                /\ diag' = <<>>
                /\ UNCHANGED STOCK_DATA
           ELSE IF ~data.ok
           THEN /\ raised' = "none"
                /\ diag' = <<Log("ERROR", "Invalid JSON in %s: %s")>>
                /\ UNCHANGED STOCK_DATA
           ELSE IF IsDict(data)
           THEN /\ raised' = "none"
                /\ diag' = <<Log("INFO", "Inventory data loaded from %s")>>
                /\ STOCK_DATA' = Replace(STOCK_DATA, data.dict)
           ELSE /\ raised' = "none"
                /\ diag' = <<Log("ERROR", "Invalid data format in %s")>>
                /\ UNCHANGED STOCK_DATA

\* save_data(file_path), lines 117-132
save_data(file_path) ==
    LET out == JsonDump(STOCK_DATA)
    IN  /\ call' = Call("save_data", NoItem, None, file_path)
        /\ pre' = STOCK_DATA
        /\ ret' = NoRet
        /\ audit' = <<>>
        /\ UNCHANGED <<STOCK_DATA, total>>
        /\ IF file_path = "/"
           THEN /\ raised' = "none"
                /\ diag' = <<Log("ERROR", "Error saving file %s: %s")>>
                /\ file' = file
           ELSE /\ file' = [kind |-> "file", text |-> out.text]
                /\ IF out.ok
                   THEN /\ raised' = "none"
                        /\ diag' = <<Log("INFO", "Inventory data saved to %s")>>
                   ELSE /\ raised' = "TypeError"
                        /\ diag' = <<>>

\* print_data(), lines 135-144
print_data ==
    /\ call' = Call("print_data", NoItem, None, "")
    /\ pre' = STOCK_DATA
    /\ ret' = NoRet
    /\ audit' = <<>>
    /\ raised' = "none"
    /\ diag' = <<Log("INFO", "Inventory Report:")>>
               \o [i \in 1..Len(STOCK_DATA) |->
                     [level |-> "INFO", msg |-> "%s -> %s", k |-> STOCK_DATA[i].k, v |-> STOCK_DATA[i].v]]
    /\ UNCHANGED <<STOCK_DATA, file, total>>

\* what another program may leave in the file: text that is no JSON, an
\* array, a scalar, bytes that are not UTF-8, and an object with a repeated
\* key, a string value and a zero
Samples ==
    { <<"{", "bad">>,
      <<"[", "1", ",", " ", "2", "]">>,
      <<"7">>,
      <<BadByte>>,
      <<"{", Quote("banana"), ":", " ", "1", ",", " ", Quote("apple"), ":", " ", Quote("ten"),
        ",", " ", Quote("banana"), ":", " ", "-", "1", "}">> }

\* the file is written from outside the program
write_file(text) ==
    /\ file' = [kind |-> "file", text |-> text]
    /\ call' = Call("write_file", NoItem, None, "inventory.json")
    /\ pre' = STOCK_DATA
    /\ ret' = NoRet
    /\ audit' = <<>>
    /\ diag' = <<>>
    /\ raised' = "none"
    /\ UNCHANGED <<STOCK_DATA, total>>

Init ==
    /\ STOCK_DATA = <<>>
    /\ file = [kind |-> "absent", text |-> <<>>]
    /\ call = Call("", NoItem, None, "")
    /\ pre = <<>>
    /\ raised = "none"
    /\ ret = NoRet
    /\ diag = <<>>
    /\ audit = <<>>
    /\ total = [on |-> TRUE, sum |-> Zero]

Next ==
    \/ \E item \in AddItems, qty \in AddQtys : add_item(item, qty)
    \/ \E item \in Items, qty \in RemoveQtys : remove_item(item, qty)
    \/ \E item \in Items : get_qty(item)
    \/ \E threshold \in Thresholds : check_low_items(threshold)
    \/ \E file_path \in Paths : load_data(file_path)
    \/ \E file_path \in Paths : save_data(file_path)
    \/ print_data
    \/ \E text \in Samples : write_file(text)

Spec == Init /\ [][Next]_vars

-----------------------------------------------------------------------------
(* The claims *)

\* the dict as a function from its keys to their values
AsMap(d) == [key \in Keys(d) |-> Get(d, key, None)]

\* every value of the dict is a number
Numeric(d) == \A i \in 1..Len(d) : d[i].v.ty = "int"

\* the quantity is a number at or below zero
NonPositive(x) == x.ty = "int" /\ x.v <= 0

\* the last call ended in an error diagnostic
LoggedError == \E i \in 1..Len(diag) : diag[i].level = "ERROR"

\* C1, as claimed: in every reachable state no entry of the mapping has a
\* quantity that is zero or negative.
C1_NoEntryAtOrBelowZero ==
    \A i \in 1..Len(STOCK_DATA) : ~NonPositive(STOCK_DATA[i].v)

\* C1, amended: only add_item and load_data leave an entry at a quantity that
\* is zero or negative.  After any other call an entry at or below zero is one
\* that was there, with that quantity, before the call; so a remove_item that
\* brings its item to zero or below has deleted the entry.
C1_OnlyAddAndLoadLeaveNonPositive ==
    \A key \in Keys(STOCK_DATA) :
        NonPositive(Get(STOCK_DATA, key, None)) =>
            \/ call.name = "add_item" /\ call.item = Str(key)
            \/ call.name = "load_data"
            \/ key \in Keys(pre) /\ Get(pre, key, None) = Get(STOCK_DATA, key, None)

\* remove_item brought an entry from 1 to 0 and deleted it, next to an entry
\* that add_item had left below zero
C1_Witness ==
    /\ call.name = "remove_item"
    /\ call.qty = PyInt(1)
    /\ Has(pre, call.item)
    /\ Get(pre, call.item.s, None) = PyInt(1)
    /\ ~Has(STOCK_DATA, call.item)
    /\ \E key \in Keys(STOCK_DATA) : NonPositive(Get(STOCK_DATA, key, None))

\* C2, as claimed: no call propagates an exception to its caller, whatever
\* its arguments and whatever the mapping holds.
C2_NoCallRaises == raised = "none"

HoldsObject ==
    /\ call.path # "/"
    /\ file.kind = "file"
    /\ Utf8(file.text)
    /\ JsonLoads(file.text).ok
    /\ JsonLoads(file.text).kind = "dict"

\* C4: a load_data that fails (the path is no file that exists, the text is
\* not valid JSON, or the JSON is not an object) leaves the mapping as it was.
C4_FailedLoadKeepsMapping ==
    (call.name = "load_data" /\ ~HoldsObject) => STOCK_DATA = pre

\* load_data read a JSON array while the mapping held an entry
C4_Witness ==
    /\ call.name = "load_data"
    /\ call.path # "/"
    /\ file.kind = "file"
    /\ JsonLoads(file.text).ok
    /\ JsonLoads(file.text).kind = "list"
    /\ diag = <<Log("ERROR", "Invalid data format in %s")>>
    /\ pre # <<>>

\* C5: a load_data of a file that holds the JSON object D leaves the mapping
\* equal to D: the keys of D with the values of D, and no entry from before.
C5_LoadReplacesMapping ==
    (call.name = "load_data" /\ HoldsObject) =>
        /\ AsMap(STOCK_DATA) = AsMap(JsonLoads(file.text).dict)
        /\ Len(STOCK_DATA) = Cardinality(Keys(STOCK_DATA))

\* load_data installed an object while the mapping held a key the object lacks
C5_Witness ==
    /\ call.name = "load_data"
    /\ HoldsObject
    /\ \E key \in Keys(pre) : key \notin Keys(JsonLoads(file.text).dict)
    /\ JsonLoads(file.text).dict # <<>>

\* the entries of d other than key's, in order
Others(d, key) == SelectSeq(d, LAMBDA e : e.k # key)

\* C6: remove_item(item, qty) on an item of the mapping, both quantities
\* numbers, leaves old - qty: at zero or below the entry is deleted, so that
\* get_qty(item) is 0 and item is no key; above zero the entry stays, in its
\* place, with old - qty.  The other entries stay as they were.
C6_RemoveDecrementsOrDeletes ==
    (/\ call.name = "remove_item"
     /\ Has(pre, call.item)
     /\ Get(pre, call.item.s, None).ty = "int"
     /\ call.qty.ty = "int") =>
        LET key == call.item.s
            left == Get(pre, key, None).v - call.qty.v
        IN  /\ raised = "none"
            /\ Others(STOCK_DATA, key) = Others(pre, key)
            /\ IF left <= 0
               THEN /\ key \notin Keys(STOCK_DATA)
                    /\ QtyOf(STOCK_DATA, call.item) = PyInt(0)
               ELSE /\ key \in Keys(STOCK_DATA)
                    /\ Index(STOCK_DATA, key) = Index(pre, key)
                    /\ Get(STOCK_DATA, key, None) = PyInt(left)

\* remove_item took the first of two entries from 1 to 0 and deleted it
C6_Witness ==
    /\ call.name = "remove_item"
    /\ call.qty = PyInt(1)
    /\ Len(pre) = 2
    /\ pre[1].k = call.item.s
    /\ pre[1].v = PyInt(1)
    /\ Len(STOCK_DATA) = 1
    /\ diag = <<Log("INFO", "Removed %s from inventory.")>>

\* C7: a valid add_item(item, qty) sets the item's quantity to the one before
\* (0 for an absent item) plus qty; and while only add_item calls with qty > 0
\* have changed the mapping since it was empty, get_qty(item) is the sum of
\* the quantities added to item, for every item.
C7_AddAccumulates ==
    /\ (/\ call.name = "add_item"
        /\ call.item.ty = "str"
        /\ call.qty.ty = "int"
        /\ QtyOf(pre, call.item).ty = "int") =>
            /\ raised = "none"
            /\ QtyOf(STOCK_DATA, call.item) = PyInt(QtyOf(pre, call.item).v + call.qty.v)
            /\ Others(STOCK_DATA, call.item.s) = Others(pre, call.item.s)
    /\ total.on => \A n \in Names : QtyOf(STOCK_DATA, Str(n)) = PyInt(total.sum[n])

\* two adds to one item and one to the other have been summed
C7_Witness ==
    /\ call.name = "add_item"
    /\ total.on
    /\ total.sum["apple"] = 2
    /\ total.sum["banana"] = 1
    /\ QtyOf(pre, call.item).v = 1

\* C8: an add_item whose item is no string or whose qty is no number changes
\* nothing: the mapping is as before, nothing is appended to logs, and the
\* call returns without raising.
C8_InvalidAddIsNoOp ==
    (call.name = "add_item" /\ (call.item.ty # "str" \/ call.qty.ty \notin {"int", "float"})) =>
        /\ STOCK_DATA = pre
        /\ audit = <<>>
        /\ raised = "none"

\* add_item(123, "ten"), line 169, on a mapping that holds an entry
C8_Witness ==
    /\ call.name = "add_item"
    /\ call.item = OneTwoThree
    /\ call.qty = Ten
    /\ pre # <<>>
    /\ diag = <<Log("WARNING", "Invalid item type: %s")>>

\* the keys of the entries of d below threshold, in order
RECURSIVE Below(_, _)
Below(d, threshold) ==
    IF d = <<>> THEN <<>>
    ELSE (IF Head(d).v.v < threshold THEN <<Head(d).k>> ELSE <<>>) \o Below(Tail(d), threshold)

\* C9: on a mapping of numbers, check_low_items(threshold) returns the items
\* whose quantity is strictly below threshold, each once, in insertion order,
\* and leaves the mapping as it was; the default threshold is 5.
C9_LowItemsStrictlyBelow ==
    /\ DefaultThreshold = 5
    /\ (call.name = "check_low_items" /\ Numeric(pre) /\ call.qty.ty = "int") =>
            /\ raised = "none"
            /\ ret.low = Below(pre, call.qty.v)
            /\ STOCK_DATA = pre

\* with threshold 2, an entry at 2 was left out and a later entry below 2
\* was returned
C9_Witness ==
    /\ call.name = "check_low_items"
    /\ call.qty = PyInt(2)
    /\ Len(pre) = 2
    /\ pre[1].v = PyInt(2)
    /\ ret.low = <<pre[2].k>>

\* C10, as claimed: every failing remove_item (the item is absent, or the
\* call ends in an error) leaves the mapping as it was.
C10_FailedRemoveKeepsMapping ==
    (call.name = "remove_item" /\ (~Has(pre, call.item) \/ LoggedError \/ raised # "none")) =>
        STOCK_DATA = pre

====
